---------------------------- MODULE Spec2Model ----------------------------
(***************************************************************************)
(* The round/turn engine of debate_ai: DebateGraph (debate_graph.py), the  *)
(* Agent it drives (agent.py) and the LLM providers the agents call        *)
(* (llm_provider.py).                                                      *)
(*                                                                         *)
(* The gateway (server.py) that starts runs of the engine is modelled too.  *)
(*                                                                         *)
(* One DebateGraph instance is modelled.  run() may be called on it again  *)
(* after an earlier call has returned or raised.  Every await of a         *)
(* provider's generate() is a suspension point: the call is issued, the    *)
(* provider answers (returns a text or raises), and the coroutine resumes. *)
(* Texts are sequences of strings, so that formatting, concatenation and   *)
(* substring tests are computed as the code computes them; the texts that  *)
(* are searched for a word are sequences of one-character strings.         *)
(*                                                                         *)
(* Specifications:                                                         *)
(*   Spec, FairSpec  calls of run() one after the other on one instance    *)
(*   VoteSpec        the same, for one participant whose provider returns  *)
(*                   a text drawn from VoteTexts                           *)
(*   CancelSpec      Spec, and the awaiting task may be cancelled          *)
(*   ConcSpec        Spec, and a second coroutine calls run() on the same  *)
(*                   instance while the first is suspended                 *)
(*   ServerSpec      runs started through the tool debate_on_topic         *)
(*                                                                         *)
(* Inputs left out: timestamps, and agents constructed without a provider  *)
(* (the fallback branches of Agent.process and Agent.vote).                *)
(***************************************************************************)
EXTENDS Integers, Sequences, FiniteSets, TLC

(***************************************************************************)
(* Bounds of the model.                                                    *)
(***************************************************************************)
MaxAgents == 2      \* participants: 1..MaxAgents
MaxRounds == 3      \* max_rounds argument: -NegRounds..MaxRounds
NegRounds == 1
MaxChunks == 3      \* a provider's text in VoteSpec: up to MaxChunks fragments

\* No run of the engine appends more than this many responses; the guard
\* that uses it only keeps a non-terminating variant of the engine finite.
MaxLen == MaxAgents * (MaxRounds + 2)

VARIABLES
    server,             \* DebateServer: _agents and the registered debate tools
    tool,               \* the invocation of debate_on_topic in progress, its result
    other,              \* the frame of a second coroutine, suspended at an await
    agents,             \* DebateGraph.agents, fixed at construction
    self,               \* the instance attributes that run() stores
    topic,              \* run()'s parameter topic, DebateState["topic"]
    max_rounds,         \* run()'s parameter max_rounds of the current call
    check_consensus,    \* run()'s parameter check_consensus of the current call
    pc,                 \* where the current call of run() is
    agent_index,        \* the agent node being executed (0-based, as agent_<i>)
    responses,          \* DebateState["responses"]
    round_number,       \* DebateState["round_number"]
    consensus_reached,  \* DebateState["consensus_reached"]
    votes,              \* the local list votes of _check_for_consensus
    call,               \* the provider call the coroutine is suspended at
    failures,           \* provider calls that raised during the current call of run()
    reused,             \* the call before the current one had other arguments
    invoked,            \* per participant: process and vote invocations of this run
    in_flight           \* the provider calls issued and not yet answered

vars == <<server, tool, other, agents, self, topic, max_rounds, check_consensus, pc,
          agent_index, responses, round_number, consensus_reached, votes, call, failures,
          reused, invoked, in_flight>>

(***************************************************************************)
(* Texts.                                                                  *)
(***************************************************************************)
UpperToLower ==
    ("A" :> "a") @@ ("B" :> "b") @@ ("C" :> "c") @@ ("D" :> "d") @@ ("E" :> "e") @@
    ("F" :> "f") @@ ("G" :> "g") @@ ("H" :> "h") @@ ("I" :> "i") @@ ("J" :> "j") @@
    ("K" :> "k") @@ ("L" :> "l") @@ ("M" :> "m") @@ ("N" :> "n") @@ ("O" :> "o") @@
    ("P" :> "p") @@ ("Q" :> "q") @@ ("R" :> "r") @@ ("S" :> "s") @@ ("T" :> "t") @@
    ("U" :> "u") @@ ("V" :> "v") @@ ("W" :> "w") @@ ("X" :> "x") @@ ("Y" :> "y") @@
    ("Z" :> "z")

\* str.lower()
Lower(s) ==
    [k \in 1..Len(s) |-> IF s[k] \in DOMAIN UpperToLower THEN UpperToLower[s[k]] ELSE s[k]]

\* p in s
Contains(s, p) ==
    \E k \in 0..(Len(s) - Len(p)) : SubSeq(s, k + 1, k + Len(p)) = p

TxtAgree == <<"a", "g", "r", "e", "e">>
TxtDisagree == <<"d", "i", "s", "a", "g", "r", "e", "e">>

\* Provider outputs used as inputs of the model.
RespIAgree == <<"I", " ", "a", "g", "r", "e", "e">>
RespIDisagree == <<"I", " ", "d", "i", "s", "a", "g", "r", "e", "e">>
RespOk == <<"o", "k">>
RespAGREE == <<"A", "G", "R", "E", "E">>
MsgBoom == <<"b", "o", "o", "m">>

MockResponses == {RespIAgree, RespIDisagree, RespOk}
LiveResponses == {RespAGREE, RespIDisagree}
ErrorMessages == {MsgBoom}

(***************************************************************************)
(* Providers and agents.                                                   *)
(***************************************************************************)
MockLLMProvider(response) ==
    [kind |-> "MockLLMProvider", response |-> response, error_message |-> <<>>]

FailingLLMProvider(error_message) ==
    [kind |-> "FailingLLMProvider", response |-> <<>>, error_message |-> error_message]

\* Any other implementation of LLMProvider.generate: each call returns some
\* text or raises.
LLMProvider ==
    [kind |-> "LLMProvider", response |-> <<>>, error_message |-> <<>>]

Providers ==
    {MockLLMProvider(r) : r \in MockResponses}
        \cup {FailingLLMProvider(m) : m \in ErrorMessages}
        \cup {LLMProvider}

\* What a call of provider.generate may return, and what it may raise.
GenerateReturns(provider) ==
    IF provider.kind = "MockLLMProvider" THEN {provider.response}
    ELSE IF provider.kind = "LLMProvider" THEN LiveResponses
    ELSE {}

GenerateRaises(provider) ==
    IF provider.kind = "FailingLLMProvider" THEN {provider.error_message}
    ELSE IF provider.kind = "LLMProvider" THEN ErrorMessages
    ELSE {}

Roles == <<"analyst", "critic", "supporter">>

\* str(i) for the participants' numbers.
Digit == <<"1", "2", "3", "4", "5", "6", "7", "8", "9">>

Agent(i, provider) ==
    [agent_id |-> <<"agent-", Digit[i]>>,
     role |-> Roles[((i - 1) % Len(Roles)) + 1],
     llm_provider |-> provider]

\* The provider lists of n agents.  At most one agent has a provider of the
\* open kind: that is enough to let the votes change from round to round.
ProviderLists(n) ==
    {ps \in [1..n -> Providers] :
        Cardinality({i \in 1..n : ps[i].kind = "LLMProvider"}) <= 1}

AgentLists ==
    UNION {{[i \in 1..n |-> Agent(i, ps[i])] : ps \in ProviderLists(n)} : n \in 1..MaxAgents}

NumAgents == Len(agents)

(***************************************************************************)
(* AgentResponse, Vote.  Timestamps are not modelled.                      *)
(***************************************************************************)
AgentResponse(agent, content) ==
    [agent_id |-> agent.agent_id, role |-> agent.role, content |-> content]

\* f"[Error: {str(e)}]"
ErrorContent(message) ==
    <<"[", "E", "r", "r", "o", "r", ":", " ">> \o message \o <<"]">>

\* A variant of the except branch that stores the bare message.
ErrorResponseBare(agent, message) ==
    [agent_id |-> agent.agent_id, role |-> agent.role, content |-> message]

\* The except branch of agent_node.
ErrorResponse(agent, message) ==
    [agent_id |-> agent.agent_id, role |-> agent.role, content |-> ErrorContent(message)]

\* A variant of the parsing that tests the text as it came.
DecisionCaseSensitive(response) ==
    IF Contains(response, TxtAgree) /\ ~Contains(response, TxtDisagree)
    THEN "agree"
    ELSE IF Contains(response, TxtDisagree)
    THEN "disagree"
    ELSE "needs_revision"

\* Agent.vote: the decision parsed from the provider's text.
Decision(response) ==
    LET response_lower == Lower(response)
    IN  IF Contains(response_lower, TxtAgree) /\ ~Contains(response_lower, TxtDisagree)
        THEN "agree"
        ELSE IF Contains(response_lower, TxtDisagree)
        THEN "disagree"
        ELSE "needs_revision"

Vote(agent, response) ==
    [agent_id |-> agent.agent_id, decision |-> Decision(response), reasoning |-> response]

(***************************************************************************)
(* Instance attributes.  An attribute that was never assigned is <<>>, an  *)
(* assigned one is <<value>>.                                              *)
(***************************************************************************)
HasAttr(attr) == Len(attr) = 1

\* DebateGraph.__init__ assigns neither _max_rounds nor _check_consensus.
NewInstance == [_max_rounds |-> <<>>, _check_consensus |-> <<>>]

\* A variant of run() that keeps a configuration stored by an earlier call.
StoreConfigOnce(slf, mr, cc) ==
    [_max_rounds |-> IF HasAttr(slf._max_rounds) THEN slf._max_rounds ELSE <<mr>>,
     _check_consensus |->
        IF HasAttr(slf._check_consensus) THEN slf._check_consensus ELSE <<cc>>]

\* run(): the two assignments to self.
StoreConfig(slf, mr, cc) ==
    [slf EXCEPT !._max_rounds = <<mr>>, !._check_consensus = <<cc>>]

\* DebateState.responses: the reducer operator.add merges a node's update.
\* A variant without the reducer: the update replaces the list.
Replace(old, update) == update

OperatorAdd(old, update) == old \o update

\* A variant of the initial state that counts from one.
InitialStateFromOne(tpc) ==
    [topic |-> tpc, responses |-> <<>>, round_number |-> 1, consensus_reached |-> FALSE]

\* run(): initial_state
InitialState(tpc) ==
    [topic |-> tpc, responses |-> <<>>, round_number |-> 0, consensus_reached |-> FALSE]

(***************************************************************************)
(* Prompts.                                                                *)
(***************************************************************************)
\* sep.join(lines)
RECURSIVE Join(_, _)
Join(sep, lines) ==
    IF lines = <<>> THEN <<>>
    ELSE IF Len(lines) = 1 THEN lines[1]
    ELSE lines[1] \o sep \o Join(sep, Tail(lines))

\* f"{resp.agent_id} ({resp.role}): {resp.content}"
ResponseLine(resp) == resp.agent_id \o <<" (", resp.role, "): ">> \o resp.content

\* A variant of the prompt that renders only the latest response.
AgentPromptLatest(tpc, resp) ==
    IF resp # <<>>
    THEN <<"Topic: ">> \o tpc \o <<"\n\nPrevious responses:\n">>
            \o ResponseLine(resp[Len(resp)]) \o <<"\n\nYour response:">>
    ELSE <<"Topic: ">> \o tpc \o <<"\n\nProvide your initial response:">>

\* agent_node: the prompt built from state["topic"] and state["responses"].
AgentPrompt(tpc, resp) ==
    IF resp # <<>>
    THEN <<"Topic: ">> \o tpc \o <<"\n\nPrevious responses:\n">>
            \o Join(<<"\n">>, [k \in 1..Len(resp) |-> ResponseLine(resp[k])])
            \o <<"\n\nYour response:">>
    ELSE <<"Topic: ">> \o tpc \o <<"\n\nProvide your initial response:">>

\* _check_for_consensus: response_contents
ResponseContents(resp) == [k \in 1..Len(resp) |-> resp[k].content]

\* Agent.vote: the voting prompt built from topic and current_responses.
VotePrompt(tpc, current_responses) ==
    <<"Topic: ">> \o tpc \o <<"\n\nCurrent responses:\n">>
        \o Join(<<"\n">>, [k \in 1..Len(current_responses) |->
                               <<"- ">> \o current_responses[k]])
        \o <<"\n\nBased on the above responses, do you agree with the current consensus, disagree, or think it needs revision?\nRespond with one of: agree, disagree, needs_revision\n\nAlso provide your reasoning.">>

(***************************************************************************)
(* The await the coroutine is suspended at: which call, of which agent,    *)
(* with which prompt, and how the provider has answered.                   *)
(***************************************************************************)
NoCall ==
    [kind |-> "none", agent |-> 0, prompt |-> <<>>, status |-> "none", value |-> <<>>]

PendingCall(kind, i, prompt) ==
    [kind |-> kind, agent |-> i, prompt |-> prompt, status |-> "pending", value |-> <<>>]

\* Bookkeeping of the calls of Agent.process and Agent.vote: how often each
\* participant was invoked in this run, and which calls await their provider.
NoneInvoked(n) == [process |-> [i \in 1..n |-> 0], vote |-> [i \in 1..n |-> 0]]

Issue(kind, i) ==
    /\ invoked' = [invoked EXCEPT ![kind][i + 1] = @ + 1]
    /\ in_flight' = in_flight \cup {<<kind, i>>}

Answered ==
    /\ in_flight' = in_flight \ {<<call.kind, call.agent>>}
    /\ UNCHANGED invoked

(***************************************************************************)
(* The graph: edges of _build_graph.                                       *)
(***************************************************************************)
\* A variant of the edges in which the round controller follows the
\* second-to-last agent.
NextNodeEarly(i) ==
    IF i + 2 < NumAgents THEN [pc |-> "agent", agent_index |-> i + 1]
    ELSE [pc |-> "round_controller", agent_index |-> i]

\* A variant of the edges in which the round controller follows every agent.
NextNodeControllerFirst(i) == [pc |-> "round_controller", agent_index |-> i]

\* agent_i -> agent_{i+1}; the last agent -> round_controller.
NextNode(i) ==
    IF i + 1 < NumAgents THEN [pc |-> "agent", agent_index |-> i + 1]
    ELSE [pc |-> "round_controller", agent_index |-> i]

\* Variants of _should_continue: the limit compared with <=, the limit
\* compared with !=, and the limit never read (a misspelt attribute name in
\* hasattr).
ShouldContinueLE(slf, rn, cr) ==
    IF cr THEN "end"
    ELSE IF HasAttr(slf._max_rounds) /\ rn <= slf._max_rounds[1] THEN "continue"
    ELSE "end"

ShouldContinueNE(slf, rn, cr) ==
    IF cr THEN "end"
    ELSE IF HasAttr(slf._max_rounds) /\ rn # slf._max_rounds[1] THEN "continue"
    ELSE "end"

ShouldContinueNoAttr(slf, rn, cr) ==
    IF cr THEN "end" ELSE "end"

\* A variant that does not read consensus_reached.
ShouldContinueIgnoresConsensus(slf, rn, cr) ==
    IF HasAttr(slf._max_rounds) /\ rn < slf._max_rounds[1] THEN "continue"
    ELSE "end"

\* A variant that never reads the limit.
ShouldContinueNoLimit(slf, rn, cr) == IF cr THEN "end" ELSE "continue"

\* _should_continue on the state after the round controller's update.
ShouldContinue(slf, rn, cr) ==
    IF cr THEN "end"
    ELSE IF HasAttr(slf._max_rounds) /\ rn < slf._max_rounds[1] THEN "continue"
    ELSE "end"

\* The conditional edge of round_controller.
Route(decision) ==
    IF decision = "continue" THEN [pc |-> "agent", agent_index |-> 0]
    ELSE [pc |-> "END", agent_index |-> 0]

\* A variant of the controller that checks for consensus whatever run() was
\* given.
ConsensusEnabledAlways(slf) == TRUE

\* _round_controller_node: is the consensus check requested?
ConsensusEnabled(slf) ==
    HasAttr(slf._check_consensus) /\ slf._check_consensus[1]

\* A variant of the early return that reads the incremented round number.
SkipsPollAfterIncrement(rn, resp) == rn + 1 < 1 \/ resp = <<>>

\* _check_for_consensus: the early return, on the state the node was given.
SkipsPoll(rn, resp) == rn < 1 \/ resp = <<>>

\* A variant of the verdict: any(...) instead of all(...).
AnyAgree(vs) == \E k \in 1..Len(vs) : vs[k].decision = "agree"

\* all(vote.decision == "agree" for vote in votes)
AllAgree(vs) == \A k \in 1..Len(vs) : vs[k].decision = "agree"

(***************************************************************************)
(* _build_graph and compile().  Node agent_<i> is written i.  The entry    *)
(* point is set only for a non-empty agent list, while the conditional     *)
(* edge of round_controller always names agent_0; compile() validates the  *)
(* graph and raises ValueError for a graph without an entry point or with  *)
(* an edge to a node that was not added, so DebateGraph(agents) raises.    *)
(***************************************************************************)
AgentNodes(ags) == 0..(Len(ags) - 1)

EntryPoint(ags) == IF ags # <<>> THEN <<0>> ELSE <<>>

ConditionalTargets == {0}

Compiles(ags) == EntryPoint(ags) # <<>> /\ ConditionalTargets \subseteq AgentNodes(ags)

\* DebateGraph(agents): where a caller stands after the constructor.
Constructed(ags) == IF Compiles(ags) THEN "idle" ELSE "construct_raised"

(***************************************************************************)
(* DebateServer.__init__, and the state of a coroutine that has not called *)
(* anything yet.                                                           *)
(***************************************************************************)
NewServer == [_agents |-> <<>>, _tools |-> <<>>]

NoTool == [active |-> FALSE, result |-> <<>>, fn |-> 0]

IdleFrame ==
    [topic |-> <<>>, max_rounds |-> 1, check_consensus |-> FALSE, pc |-> "idle",
     agent_index |-> 0, responses |-> <<>>, round_number |-> 0,
     consensus_reached |-> FALSE, votes |-> <<>>, call |-> NoCall, failures |-> 0,
     reused |-> FALSE, invoked |-> NoneInvoked(0), in_flight |-> {},
     agents |-> <<>>, self |-> NewInstance, tool |-> NoTool]

\* The topics given to run().
Topics == {<<>>, <<"A", "I">>}

(***************************************************************************)
(* Initial state: DebateGraph(agents) has been called, run() not yet.      *)
(***************************************************************************)
\* The coroutine has called nothing yet, and no second coroutine exists.
Blank ==
    /\ other = IdleFrame
    /\ self = NewInstance
    /\ topic = IdleFrame.topic
    /\ max_rounds = IdleFrame.max_rounds
    /\ check_consensus = IdleFrame.check_consensus
    /\ agent_index = IdleFrame.agent_index
    /\ responses = IdleFrame.responses
    /\ round_number = IdleFrame.round_number
    /\ consensus_reached = IdleFrame.consensus_reached
    /\ votes = IdleFrame.votes
    /\ call = IdleFrame.call
    /\ failures = IdleFrame.failures
    /\ reused = IdleFrame.reused
    /\ invoked = IdleFrame.invoked
    /\ in_flight = IdleFrame.in_flight

InitWith(ags) ==
    /\ server = NewServer
    /\ tool = NoTool
    /\ agents = ags
    /\ pc = Constructed(ags)
    /\ Blank

Init == \E ags \in AgentLists \cup {<<>>} : InitWith(ags)

(***************************************************************************)
(* run(topic, max_rounds, check_consensus), up to the entry point agent_0. *)
(* A coroutine calls it when its earlier call, if any, has ended.          *)
(***************************************************************************)
Run(tpc, mr, cc) ==
    /\ pc \in {"idle", "END", "raised", "cancelled"}
    /\ self' = StoreConfig(self, mr, cc)
    /\ topic' = InitialState(tpc).topic
    /\ max_rounds' = mr
    /\ check_consensus' = cc
    /\ responses' = InitialState(tpc).responses
    /\ round_number' = InitialState(tpc).round_number
    /\ consensus_reached' = InitialState(tpc).consensus_reached
    /\ pc' = "agent"
    /\ agent_index' = 0
    /\ votes' = <<>>
    /\ call' = NoCall
    /\ failures' = 0
    /\ reused' = (pc # "idle" /\ <<max_rounds, check_consensus>> # <<mr, cc>>)
    /\ UNCHANGED <<server, tool, other, agents>>
    /\ invoked' = NoneInvoked(NumAgents)
    /\ in_flight' = {}

(***************************************************************************)
(* agent_node, first half: the prompt is built and process_with_metadata   *)
(* awaits the provider.                                                    *)
(***************************************************************************)
AgentNodeCall ==
    /\ pc = "agent"
    /\ call = NoCall
    /\ Len(responses) < MaxLen
    /\ call' = PendingCall("process", agent_index, AgentPrompt(topic, responses))
    /\ UNCHANGED <<server, tool, other, agents, self, topic, max_rounds,
                   check_consensus, pc, agent_index, responses,
                   round_number, consensus_reached, votes, failures, reused>>
    /\ Issue("process", agent_index)

(***************************************************************************)
(* The provider answers the pending call.                                  *)
(***************************************************************************)
GenerateReturn ==
    /\ call.status = "pending"
    /\ \E text \in GenerateReturns(agents[call.agent + 1].llm_provider) :
          call' = [call EXCEPT !.status = "returned", !.value = text]
    /\ UNCHANGED <<server, tool, other, agents, self, topic, max_rounds,
                   check_consensus, pc, agent_index, responses,
                   round_number, consensus_reached, votes, failures, reused>>
    /\ Answered

GenerateRaise ==
    /\ call.status = "pending"
    /\ \E message \in GenerateRaises(agents[call.agent + 1].llm_provider) :
          call' = [call EXCEPT !.status = "raised", !.value = message]
    /\ failures' = failures + 1
    /\ UNCHANGED <<server, tool, other, agents, self, topic, max_rounds,
                   check_consensus, pc, agent_index, responses,
                   round_number, consensus_reached, votes, reused>>
    /\ Answered

(***************************************************************************)
(* agent_node, second half: the try branch and the except branch.          *)
(***************************************************************************)
AgentNodeReturn ==
    /\ pc = "agent"
    /\ call.kind = "process"
    /\ call.status = "returned"
    /\ responses' = OperatorAdd(responses,
                             <<AgentResponse(agents[agent_index + 1], call.value)>>)
    /\ pc' = NextNode(agent_index).pc
    /\ agent_index' = NextNode(agent_index).agent_index
    /\ call' = NoCall
    /\ UNCHANGED <<server, tool, other, agents, self, topic, max_rounds,
                   check_consensus, round_number,
                   consensus_reached, votes, failures, reused>>
    /\ UNCHANGED <<invoked, in_flight>>

\* A variant of the except branch that calls the participant again.
AgentNodeExceptRetries ==
    /\ pc = "agent"
    /\ call.kind = "process"
    /\ call.status = "raised"
    /\ invoked.process[agent_index + 1] < MaxLen
    /\ call' = PendingCall("process", agent_index, AgentPrompt(topic, responses))
    /\ Issue("process", agent_index)
    /\ UNCHANGED <<server, tool, other, agents, self, topic, max_rounds,
                   check_consensus, pc, agent_index, responses, round_number,
                   consensus_reached, votes, failures, reused>>

\* A variant of the except branch that returns no update.
AgentNodeExceptDrops ==
    /\ pc = "agent"
    /\ call.kind = "process"
    /\ call.status = "raised"
    /\ pc' = NextNode(agent_index).pc
    /\ agent_index' = NextNode(agent_index).agent_index
    /\ call' = NoCall
    /\ UNCHANGED <<server, tool, other, agents, self, topic, max_rounds,
                   check_consensus, responses, round_number, consensus_reached, votes,
                   failures, reused>>
    /\ UNCHANGED <<invoked, in_flight>>

AgentNodeExcept ==
    /\ pc = "agent"
    /\ call.kind = "process"
    /\ call.status = "raised"
    /\ responses' = OperatorAdd(responses,
                             <<ErrorResponse(agents[agent_index + 1], call.value)>>)
    /\ pc' = NextNode(agent_index).pc
    /\ agent_index' = NextNode(agent_index).agent_index
    /\ call' = NoCall
    /\ UNCHANGED <<server, tool, other, agents, self, topic, max_rounds,
                   check_consensus, round_number,
                   consensus_reached, votes, failures, reused>>
    /\ UNCHANGED <<invoked, in_flight>>

(***************************************************************************)
(* _round_controller_node when no participant is polled: consensus         *)
(* checking is off, or _check_for_consensus returns False at once.  The    *)
(* node's update is applied and _should_continue picks the next node.      *)
(***************************************************************************)
RoundController ==
    /\ pc = "round_controller"
    /\ ~ConsensusEnabled(self) \/ SkipsPoll(round_number, responses)
    /\ round_number' = round_number + 1
    /\ consensus_reached' = IF ConsensusEnabled(self) THEN FALSE ELSE consensus_reached
    /\ votes' = <<>>
    /\ pc' = Route(ShouldContinue(self, round_number', consensus_reached')).pc
    /\ agent_index' = Route(ShouldContinue(self, round_number', consensus_reached')).agent_index
    /\ UNCHANGED <<server, tool, other, agents, self, topic, max_rounds,
                   check_consensus, responses, call, failures, reused>>
    /\ UNCHANGED <<invoked, in_flight>>

\* A variant of the poll that starts every vote at once.
CheckForConsensusGather ==
    /\ pc = "round_controller"
    /\ ConsensusEnabled(self)
    /\ ~SkipsPoll(round_number, responses)
    /\ pc' = "check_for_consensus"
    /\ votes' = <<>>
    /\ call' = PendingCall("vote", 0, VotePrompt(topic, ResponseContents(responses)))
    /\ UNCHANGED <<server, tool, other, agents, self, topic, max_rounds,
                   check_consensus, agent_index, responses,
                   round_number, consensus_reached, failures, reused>>
    /\ invoked' = [invoked EXCEPT !.vote = [k \in 1..NumAgents |-> @[k] + 1]]
    /\ in_flight' = in_flight \cup {<<"vote", k>> : k \in 0..(NumAgents - 1)}

(***************************************************************************)
(* _round_controller_node entering _check_for_consensus: the first         *)
(* agent.vote awaits its provider.                                         *)
(***************************************************************************)
CheckForConsensus ==
    /\ pc = "round_controller"
    /\ ConsensusEnabled(self)
    /\ ~SkipsPoll(round_number, responses)
    /\ pc' = "check_for_consensus"
    /\ votes' = <<>>
    /\ call' = PendingCall("vote", 0, VotePrompt(topic, ResponseContents(responses)))
    /\ UNCHANGED <<server, tool, other, agents, self, topic, max_rounds,
                   check_consensus, agent_index, responses,
                   round_number, consensus_reached, failures, reused>>
    /\ Issue("vote", 0)

(***************************************************************************)
(* agent.vote returns: the vote is appended; either the next agent is      *)
(* polled, or the poll ends, the controller's update is applied and        *)
(* _should_continue picks the next node.                                   *)
(***************************************************************************)
VoteReturn ==
    /\ pc = "check_for_consensus"
    /\ call.kind = "vote"
    /\ call.status = "returned"
    /\ votes' = Append(votes, Vote(agents[call.agent + 1], call.value))
    /\ IF call.agent + 1 < NumAgents
       THEN /\ call' = PendingCall("vote", call.agent + 1,
                                    VotePrompt(topic, ResponseContents(responses)))
            /\ Issue("vote", call.agent + 1)
            /\ UNCHANGED <<pc, agent_index, round_number, consensus_reached>>
       ELSE /\ call' = NoCall
            /\ UNCHANGED <<invoked, in_flight>>
            /\ round_number' = round_number + 1
            /\ consensus_reached' = AllAgree(votes')
            /\ pc' = Route(ShouldContinue(self, round_number', consensus_reached')).pc
            /\ agent_index' =
                  Route(ShouldContinue(self, round_number', consensus_reached')).agent_index
    /\ UNCHANGED <<server, tool, other, agents, self, topic, max_rounds,
                   check_consensus, responses, failures, reused>>

(***************************************************************************)
(* agent.vote raises: nothing catches it, run() raises.                    *)
(***************************************************************************)
VoteExcept ==
    /\ pc = "check_for_consensus"
    /\ call.kind = "vote"
    /\ call.status = "raised"
    /\ pc' = "raised"
    /\ call' = NoCall
    /\ UNCHANGED <<server, tool, other, agents, self, topic, max_rounds,
                   check_consensus, agent_index, responses,
                   round_number, consensus_reached, votes, failures, reused>>
    /\ UNCHANGED <<invoked, in_flight>>

RunArgs == Topics \X ((0 - NegRounds)..MaxRounds) \X BOOLEAN

CallRun == \E a \in RunArgs : Run(a[1], a[2], a[3])

\* The steps of a call of run() in progress.
Step ==
    \/ AgentNodeCall
    \/ GenerateReturn
    \/ GenerateRaise
    \/ AgentNodeReturn
    \/ AgentNodeExcept
    \/ RoundController
    \/ CheckForConsensus
    \/ VoteReturn
    \/ VoteExcept

Next ==
    \/ CallRun
    \/ AgentNodeCall
    \/ GenerateReturn
    \/ GenerateRaise
    \/ AgentNodeReturn
    \/ AgentNodeExcept
    \/ RoundController
    \/ CheckForConsensus
    \/ VoteReturn
    \/ VoteExcept

Spec == Init /\ [][Next]_vars

\* Every provider call returns or raises, and the event loop keeps running
\* the coroutine; nothing obliges the caller to call run() again.
FairSpec == Init /\ [][Next]_vars /\ WF_vars(Step)

(***************************************************************************)
(* The engine with one participant whose provider returns a text put       *)
(* together from fragments (or whose provider fails), so that Agent.vote   *)
(* parses many texts: with and without each word, in either case, with     *)
(* near misses, and the empty text.                                        *)
(***************************************************************************)
Chunks ==
    {TxtAgree, <<"d", "i", "s">>, <<"A", "g", "r", "e", "e">>, <<"a", "g", "r", "e">>,
     <<" ">>}

RECURSIVE Concat(_)
Concat(cs) == IF cs = <<>> THEN <<>> ELSE cs[1] \o Concat(Tail(cs))

VoteTexts == UNION {{Concat(cs) : cs \in [1..n -> Chunks]} : n \in 0..MaxChunks}

VoteAgentLists ==
    {<<Agent(1, MockLLMProvider(t))>> : t \in VoteTexts}
        \cup {<<Agent(1, FailingLLMProvider(m))>> : m \in ErrorMessages}

VoteInit == \E ags \in VoteAgentLists : InitWith(ags)

VoteSpec == VoteInit /\ [][Next]_vars

(***************************************************************************)
(* The gateway.  register_debate_tool(agents) stores the list in           *)
(* self._agents and appends the tool debate_on_topic, a closure over self  *)
(* and agents.  The tool builds a new DebateGraph from self._agents, runs  *)
(* it and returns four fields of the result.                               *)
(***************************************************************************)
RegisterDebateTool(srv, ags) ==
    [_agents |-> ags,
     _tools |-> Append(srv._tools, [name |-> "debate_on_topic", agents |-> ags])]

\* A variant of the returned dictionary that counts rounds as responses.
ToolResultCountsRounds ==
    [topic |-> topic, consensus_reached |-> consensus_reached,
     round_number |-> round_number, total_responses |-> round_number]

\* debate_on_topic: the dictionary built from the DebateResult.
ToolResult ==
    [topic |-> topic, consensus_reached |-> consensus_reached,
     round_number |-> round_number, total_responses |-> Len(responses)]

\* The k-th registered debate_on_topic is invoked:
\* DebateGraph(agents=self._agents), then graph.run(...) up to the entry
\* point.  Every registered closure has this body; self is the server.
DebateOnTopic(k, tpc, mr, cc) ==
    /\ k \in 1..Len(server._tools)
    /\ ~tool.active
    /\ pc \notin {"agent", "round_controller", "check_for_consensus"}
    /\ tool' = [active |-> TRUE, result |-> <<>>, fn |-> k]
    /\ agents' = server._agents
    /\ IF Compiles(server._agents)
       THEN /\ self' = StoreConfig(NewInstance, mr, cc)
            /\ topic' = InitialState(tpc).topic
            /\ max_rounds' = mr
            /\ check_consensus' = cc
            /\ pc' = "agent"
       ELSE /\ self' = NewInstance
            /\ pc' = Constructed(server._agents)
            /\ UNCHANGED <<topic, max_rounds, check_consensus>>
    /\ responses' = InitialState(tpc).responses
    /\ round_number' = InitialState(tpc).round_number
    /\ consensus_reached' = InitialState(tpc).consensus_reached
    /\ agent_index' = 0
    /\ votes' = <<>>
    /\ call' = NoCall
    /\ failures' = 0
    /\ reused' = FALSE
    /\ UNCHANGED <<server, other>>
    /\ invoked' = NoneInvoked(Len(server._agents))
    /\ in_flight' = {}

\* graph.run has returned: the tool returns its dictionary.
DebateOnTopicReturn ==
    /\ tool.active
    /\ pc = "END"
    /\ tool' = [tool EXCEPT !.active = FALSE, !.result = <<ToolResult>>]
    /\ UNCHANGED <<server, other, agents, self, topic, max_rounds, check_consensus, pc,
                   agent_index, responses, round_number, consensus_reached, votes, call,
                   failures, reused>>
    /\ UNCHANGED <<invoked, in_flight>>

\* The constructor or graph.run has raised: so does the tool.
DebateOnTopicRaise ==
    /\ tool.active
    /\ pc \in {"raised", "construct_raised"}
    /\ tool' = [tool EXCEPT !.active = FALSE, !.result = <<>>]
    /\ UNCHANGED <<server, other, agents, self, topic, max_rounds, check_consensus, pc,
                   agent_index, responses, round_number, consensus_reached, votes, call,
                   failures, reused>>
    /\ UNCHANGED <<invoked, in_flight>>

CallDebateOnTopic ==
    \E k \in 1..Len(server._tools), a \in RunArgs : DebateOnTopic(k, a[1], a[2], a[3])

\* DebateServer() and one register_debate_tool(agents); no graph exists yet.
ServerInit ==
    /\ \E ags \in AgentLists \cup {<<>>} : server = RegisterDebateTool(NewServer, ags)
    /\ tool = NoTool
    /\ agents = <<>>
    /\ pc = "idle"
    /\ Blank

ServerNext ==
    \/ CallDebateOnTopic
    \/ Step
    \/ DebateOnTopicReturn
    \/ DebateOnTopicRaise

ServerSpec == ServerInit /\ [][ServerNext]_vars

(***************************************************************************)
(* Two coroutines on one DebateGraph instance.  The variables topic ..     *)
(* reused are the frame of the coroutine the event loop is running; other  *)
(* is the frame of the second coroutine.  The event loop switches between  *)
(* them only where the running one is suspended at an await of a provider  *)
(* call, or has not called run() or has left it.  The attributes in self   *)
(* belong to the instance, which both share, so a frame does not carry     *)
(* them.                                                                   *)
(***************************************************************************)
Frame ==
    [topic |-> topic, max_rounds |-> max_rounds, check_consensus |-> check_consensus,
     pc |-> pc, agent_index |-> agent_index, responses |-> responses,
     round_number |-> round_number, consensus_reached |-> consensus_reached,
     votes |-> votes, call |-> call, failures |-> failures, reused |-> reused,
     invoked |-> invoked, in_flight |-> in_flight,
     agents |-> IdleFrame.agents, self |-> IdleFrame.self, tool |-> IdleFrame.tool]

Switch ==
    /\ pc \in {"idle", "END", "raised", "cancelled"} \/ call.status # "none"
    /\ pc # "construct_raised"
    /\ other' = Frame
    /\ topic' = other.topic
    /\ max_rounds' = other.max_rounds
    /\ check_consensus' = other.check_consensus
    /\ pc' = other.pc
    /\ agent_index' = other.agent_index
    /\ responses' = other.responses
    /\ round_number' = other.round_number
    /\ consensus_reached' = other.consensus_reached
    /\ votes' = other.votes
    /\ call' = other.call
    /\ failures' = other.failures
    /\ reused' = other.reused
    /\ invoked' = other.invoked
    /\ in_flight' = other.in_flight
    /\ UNCHANGED <<server, tool, agents, self>>

\* One participant, and few arguments of run(): the pairs of frames
\* multiply.
ConcAgentLists == {ags \in AgentLists : Len(ags) = 1}

ConcRunArgs == {<<>>} \X (1..2) \X BOOLEAN

ConcCallRun == \E a \in ConcRunArgs : Run(a[1], a[2], a[3])

ConcInit == \E ags \in ConcAgentLists : InitWith(ags)

ConcNext ==
    \/ ConcCallRun
    \/ Step
    \/ Switch

ConcSpec == ConcInit /\ [][ConcNext]_vars

(***************************************************************************)
(* Several registrations.  register_debate_tool may be called again, also  *)
(* while an invocation of a tool is suspended at a provider call; each     *)
(* call appends one more debate_on_topic to the server's tools.            *)
(***************************************************************************)
MaxTools == 2

RegisterAgain ==
    /\ Len(server._tools) < MaxTools
    /\ ~tool.active \/ call.status = "pending"
    /\ \E ags \in ConcAgentLists : server' = RegisterDebateTool(server, ags)
    /\ UNCHANGED <<tool, other, agents, self, topic, max_rounds, check_consensus, pc,
                   agent_index, responses, round_number, consensus_reached, votes, call,
                   failures, reused, invoked, in_flight>>

ToolCallArgs == Topics \X (1..2) \X BOOLEAN

RegisterCallDebateOnTopic ==
    \E k \in 1..Len(server._tools), a \in ToolCallArgs :
        DebateOnTopic(k, a[1], a[2], a[3])

\* DebateServer(): nothing is registered yet.
RegisterInit ==
    /\ server = NewServer
    /\ tool = NoTool
    /\ agents = <<>>
    /\ pc = "idle"
    /\ Blank

RegisterNext ==
    \/ RegisterAgain
    \/ RegisterCallDebateOnTopic
    \/ Step
    \/ DebateOnTopicReturn
    \/ DebateOnTopicRaise

RegisterSpec == RegisterInit /\ [][RegisterNext]_vars

(***************************************************************************)
(* Overlapping invocations of one registered debate_on_topic.  Each        *)
(* invocation constructs its own DebateGraph, so the frame of an           *)
(* invocation carries the graph (agents, self) and the tool call with the  *)
(* run; the event loop switches between two invocations where the running  *)
(* one is suspended at a provider call, or has not started or has          *)
(* returned.                                                               *)
(***************************************************************************)
ToolFrame == [Frame EXCEPT !.agents = agents, !.self = self, !.tool = tool]

\* A variant in which the two invocations run on one DebateGraph.
ToolSwitchSharedGraph ==
    /\ ~tool.active \/ call.status # "none"
    /\ other' = ToolFrame
    /\ tool' = other.tool
    /\ topic' = other.topic
    /\ max_rounds' = other.max_rounds
    /\ check_consensus' = other.check_consensus
    /\ pc' = other.pc
    /\ agent_index' = other.agent_index
    /\ responses' = other.responses
    /\ round_number' = other.round_number
    /\ consensus_reached' = other.consensus_reached
    /\ votes' = other.votes
    /\ call' = other.call
    /\ failures' = other.failures
    /\ reused' = other.reused
    /\ invoked' = other.invoked
    /\ in_flight' = other.in_flight
    /\ UNCHANGED <<server, agents, self>>

ToolSwitch ==
    /\ ~tool.active \/ call.status # "none"
    /\ other' = ToolFrame
    /\ tool' = other.tool
    /\ agents' = other.agents
    /\ self' = other.self
    /\ topic' = other.topic
    /\ max_rounds' = other.max_rounds
    /\ check_consensus' = other.check_consensus
    /\ pc' = other.pc
    /\ agent_index' = other.agent_index
    /\ responses' = other.responses
    /\ round_number' = other.round_number
    /\ consensus_reached' = other.consensus_reached
    /\ votes' = other.votes
    /\ call' = other.call
    /\ failures' = other.failures
    /\ reused' = other.reused
    /\ invoked' = other.invoked
    /\ in_flight' = other.in_flight
    /\ UNCHANGED server

OverlapArgs == {<<>>} \X (1..2) \X BOOLEAN

OverlapCallDebateOnTopic ==
    \E a \in OverlapArgs : DebateOnTopic(1, a[1], a[2], a[3])

\* DebateServer() and one register_debate_tool(agents).
OverlapInit ==
    /\ \E ags \in ConcAgentLists : server = RegisterDebateTool(NewServer, ags)
    /\ tool = NoTool
    /\ agents = <<>>
    /\ pc = "idle"
    /\ Blank

OverlapNext ==
    \/ OverlapCallDebateOnTopic
    \/ Step
    \/ DebateOnTopicReturn
    \/ DebateOnTopicRaise
    \/ ToolSwitch

OverlapSpec == OverlapInit /\ [][OverlapNext]_vars

(***************************************************************************)
(* Cancellation.  The caller cancels the task that awaits run() (as        *)
(* asyncio.wait_for does on a timeout) while a provider call is in flight: *)
(* CancelledError is thrown into the coroutine at the await.  It derives   *)
(* from BaseException, not from Exception.                                 *)
(***************************************************************************)
ExceptionClasses == {"Exception", "CancelledError"}

\* A variant of the clause: except BaseException.
ExceptBaseException(cls) == cls \in ExceptionClasses

\* agent_node: except Exception as e
ExceptException(cls) == cls = "Exception"

Cancel ==
    /\ call.status = "pending"
    /\ call' = [call EXCEPT !.status = "cancelled"]
    /\ UNCHANGED <<server, tool, other, agents, self, topic, max_rounds,
                   check_consensus, pc, agent_index, responses, round_number,
                   consensus_reached, votes, failures, reused>>
    /\ Answered

\* agent_node when CancelledError arrives at
\* await agent.process_with_metadata; str(CancelledError()) is "".
AgentNodeCancelled ==
    /\ pc = "agent"
    /\ call.kind = "process"
    /\ call.status = "cancelled"
    /\ call' = NoCall
    /\ IF ExceptException("CancelledError")
       THEN /\ responses' = OperatorAdd(responses,
                                     <<ErrorResponse(agents[agent_index + 1], <<>>)>>)
            /\ pc' = NextNode(agent_index).pc
            /\ agent_index' = NextNode(agent_index).agent_index
       ELSE /\ pc' = "cancelled"
            /\ UNCHANGED <<agent_index, responses>>
    /\ UNCHANGED <<server, tool, other, agents, self, topic, max_rounds,
                   check_consensus, round_number, consensus_reached, votes, failures,
                   reused>>
    /\ UNCHANGED <<invoked, in_flight>>

\* _check_for_consensus when CancelledError arrives at await agent.vote.
VoteCancelled ==
    /\ pc = "check_for_consensus"
    /\ call.kind = "vote"
    /\ call.status = "cancelled"
    /\ pc' = "cancelled"
    /\ call' = NoCall
    /\ UNCHANGED <<server, tool, other, agents, self, topic, max_rounds,
                   check_consensus, agent_index, responses, round_number,
                   consensus_reached, votes, failures, reused>>
    /\ UNCHANGED <<invoked, in_flight>>

CancelNext ==
    \/ Next
    \/ Cancel
    \/ AgentNodeCancelled
    \/ VoteCancelled

CancelSpec == Init /\ [][CancelNext]_vars


(***************************************************************************)
(* Vocabulary of the properties.                                           *)
(***************************************************************************)
Running == pc \in {"agent", "round_controller", "check_for_consensus"}

\* run() has returned a DebateResult built from the state.
Returned == pc = "END"

Max(a, b) == IF a >= b THEN a ELSE b

ParticipantOf(k) == agents[((k - 1) % NumAgents) + 1]

\* The error marker, written out.
ErrorMarker(message) ==
    <<"[", "E", "r", "r", "o", "r", ":", " ">> \o message \o <<"]">>

IsMock(i) == agents[i].llm_provider.kind = "MockLLMProvider"

IsFailing(i) == agents[i].llm_provider.kind = "FailingLLMProvider"

\* Participant i's vote is agree at every poll / is never agree.
AlwaysAgrees(i) ==
    /\ IsMock(i)
    /\ agents[i].llm_provider.response \in {RespIAgree}

NeverAgrees(i) ==
    /\ IsMock(i)
    /\ agents[i].llm_provider.response \in {RespIDisagree, RespOk}

\* The poll of the last round-end step asked every participant.
PolledAll == Len(votes) = NumAgents

(***************************************************************************)
(* DebateGraph(agents).run(max_rounds, check_consensus) on a newly         *)
(* constructed instance, computed round by round, for participants whose   *)
(* providers are all MockLLMProvider or FailingLLMProvider (their answers  *)
(* are fixed, so the run has one outcome).                                 *)
(***************************************************************************)
FixedProviders == \A i \in 1..NumAgents : IsMock(i) \/ IsFailing(i)

\* agent_node of participant i: the try branch or the except branch.
FreshTurn(i) ==
    IF IsMock(i)
    THEN AgentResponse(agents[i], agents[i].llm_provider.response)
    ELSE ErrorResponse(agents[i], agents[i].llm_provider.error_message)

\* _check_for_consensus: the votes, when no agent.vote raises.
FreshVotes == [i \in 1..NumAgents |-> Vote(agents[i], agents[i].llm_provider.response)]

RECURSIVE FreshRounds(_, _, _)
FreshRounds(slf, resp, rn) ==
    LET after == resp \o [i \in 1..NumAgents |-> FreshTurn(i)]
        polls == ConsensusEnabled(slf) /\ ~SkipsPoll(rn, after)
        raises == polls /\ \E i \in 1..NumAgents : IsFailing(i)
        verdict == polls /\ AllAgree(FreshVotes)
    IN  IF raises
        THEN [pc |-> "raised", responses |-> after, round_number |-> rn,
              consensus_reached |-> FALSE]
        ELSE IF ShouldContinue(slf, rn + 1, verdict) = "continue"
        THEN FreshRounds(slf, after, rn + 1)
        ELSE [pc |-> "END", responses |-> after, round_number |-> rn + 1,
              consensus_reached |-> verdict]

FreshRun(mr, cc) ==
    FreshRounds(StoreConfig(NewInstance, mr, cc), InitialState(topic).responses,
                InitialState(topic).round_number)

\* How the current call of run() ended, and the state it ended with.
Outcome ==
    [pc |-> pc, responses |-> responses, round_number |-> round_number,
     consensus_reached |-> consensus_reached]

(***************************************************************************)
(* C1.  With check_consensus = false and max_rounds = R >= 1, a call of    *)
(* run() in which no provider call failed returns with N*R responses and   *)
(* round_number = R.                                                       *)
(***************************************************************************)
C1_RoundLimit ==
    (Returned /\ ~check_consensus /\ max_rounds >= 1 /\ failures = 0)
        => (Len(responses) = NumAgents * max_rounds /\ round_number = max_rounds)

C1_Witness ==
    /\ Returned
    /\ ~check_consensus
    /\ max_rounds >= 2
    /\ failures = 0
    /\ NumAgents >= 2
    /\ Len(responses) = NumAgents * max_rounds

(***************************************************************************)
(* C2.  In every reachable state the response at transcript position k     *)
(* (0-based) carries the agent_id and the role of participant k mod N of   *)
(* the list given at construction, for successful and failed turns alike.  *)
(***************************************************************************)
C2_RoundMajorOrder ==
    \A k \in 1..Len(responses) :
        /\ responses[k].agent_id = ParticipantOf(k).agent_id
        /\ responses[k].role = ParticipantOf(k).role

C2_Witness ==
    /\ NumAgents >= 2
    /\ Len(responses) >= 2 * NumAgents
    /\ responses[NumAgents + 1].content = ErrorMarker(MsgBoom)
    /\ responses[NumAgents + 2].content = RespIAgree

(***************************************************************************)
(* C3.  As claimed: with consensus checking on and participants that       *)
(* always vote agree, run() returns after the first round, with            *)
(* round_number = 1, consensus_reached = true and N responses.             *)
(***************************************************************************)
C3_HaltsAtFirstAgreement ==
    (Returned /\ check_consensus /\ max_rounds >= 1
        /\ \A i \in 1..NumAgents : AlwaysAgrees(i))
        => (round_number = 1 /\ consensus_reached /\ Len(responses) = NumAgents)

(***************************************************************************)
(* C4.  As claimed: a participant whose provider fails on every call never *)
(* makes run() fail; each of its responses is the error marker, and the    *)
(* run returns whole rounds (with consensus checking off, max(1, R) of     *)
(* them, as when nothing fails).                                           *)
(***************************************************************************)
C4_FailingParticipantIsolated ==
    (\E i \in 1..NumAgents : IsFailing(i))
        => /\ pc # "raised"
           /\ \A k \in 1..Len(responses) :
                 ParticipantOf(k).llm_provider.kind = "FailingLLMProvider"
                    => responses[k].content =
                          ErrorMarker(ParticipantOf(k).llm_provider.error_message)
           /\ Returned => Len(responses) = NumAgents * round_number
           /\ (Returned /\ ~check_consensus) => round_number = Max(1, max_rounds)

(***************************************************************************)
(* C5.  When the process call of a turn has raised, the step that follows  *)
(* appends exactly one response, with that participant's agent_id and role *)
(* and content "[Error: <message>]", does not make run() raise, and hands  *)
(* over to the same node as a successful turn does: the next participant,  *)
(* or the round controller after the last one.                             *)
(***************************************************************************)
C5_FailureIsolated ==
    [][(pc = "agent" /\ call.kind = "process" /\ call.status = "raised")
        => /\ responses' =
                 Append(responses,
                        [agent_id |-> agents[agent_index + 1].agent_id,
                         role |-> agents[agent_index + 1].role,
                         content |-> ErrorMarker(call.value)])
           /\ IF agent_index + 1 < NumAgents
              THEN pc' = "agent" /\ agent_index' = agent_index + 1
              ELSE pc' = "round_controller"
           /\ round_number' = round_number
           /\ call' = NoCall]_vars

C5_Witness ==
    /\ NumAgents >= 2
    /\ Len(responses) >= 2
    /\ responses[1].content = ErrorMarker(MsgBoom)
    /\ responses[2].content = RespOk
    /\ pc = "round_controller"

(***************************************************************************)
(* C6.  A call of run() with max_rounds = 0 executes exactly one round,    *)
(* with consensus checking off or on: it never starts a second round,      *)
(* never raises, and returns with round_number = 1 and N responses.        *)
(***************************************************************************)
C6_ZeroRoundsRunsOnce ==
    (max_rounds = 0)
        => /\ pc # "raised"
           /\ round_number <= 1
           /\ Len(responses) <= NumAgents
           /\ round_number = 1 => Returned
           /\ Returned => (round_number = 1 /\ Len(responses) = NumAgents)

C6_Witness ==
    /\ max_rounds = 0
    /\ Returned
    /\ check_consensus
    /\ NumAgents >= 2
    /\ \A i \in 1..NumAgents : AlwaysAgrees(i)

(***************************************************************************)
(* C7.  A returned run has consensus_reached = true exactly when the last  *)
(* round-end step polled every participant and every vote was agree; in    *)
(* every state, a vote other than agree in the poll of a round-end leaves  *)
(* consensus_reached false.                                                *)
(***************************************************************************)
C7_UnanimityOnly ==
    /\ Returned =>
          (consensus_reached <=>
              (PolledAll /\ \A k \in 1..Len(votes) : votes[k].decision = "agree"))
    /\ (\E k \in 1..Len(votes) : votes[k].decision # "agree") => ~consensus_reached

C7_Witness ==
    /\ Returned
    /\ NumAgents >= 2
    /\ PolledAll
    /\ votes[1].decision = "agree"
    /\ votes[2].decision = "needs_revision"
    /\ ~consensus_reached

(***************************************************************************)
(* C8.  With consensus checking on, max_rounds = R >= 1 and a participant  *)
(* whose vote is never agree, the run does not go beyond round R, never    *)
(* has consensus_reached, and returns with round_number = R and N*R        *)
(* responses.                                                              *)
(***************************************************************************)
C8_StopsAtRoundLimit ==
    (pc # "idle" /\ check_consensus /\ max_rounds >= 1
        /\ \E i \in 1..NumAgents : NeverAgrees(i))
        => /\ round_number <= max_rounds
           /\ ~consensus_reached
           /\ Returned =>
                 (round_number = max_rounds /\ Len(responses) = NumAgents * max_rounds)

C8_Witness ==
    /\ Returned
    /\ check_consensus
    /\ max_rounds >= 2
    /\ NumAgents >= 2
    /\ AlwaysAgrees(1)
    /\ NeverAgrees(2)
    /\ PolledAll

(***************************************************************************)
(* C9.  As claimed: every call of run() eventually reaches END (the        *)
(* TERMINATED state, where the DebateResult is returned), for every        *)
(* max_rounds, with consensus checking off or on, whatever the providers   *)
(* return or raise, provided every provider call returns or raises.        *)
(***************************************************************************)
C9_ReachesTerminated == Running ~> Returned

(***************************************************************************)
(* What holds instead of C9: every call of run() ends, by reaching END or  *)
(* by a vote's failure leaving run(); the round loop does not repeat       *)
(* forever, for max_rounds 0 and negative included.                        *)
(***************************************************************************)
RunEnds == Running ~> (pc \in {"END", "raised"})

(***************************************************************************)
(* C10.  A call of run() on an instance that was used before starts from   *)
(* the empty transcript, round_number 0 and consensus_reached false, with  *)
(* the stored configuration equal to its own arguments; while it runs the  *)
(* stored configuration stays equal to its arguments; and, for             *)
(* participants with fixed answers, it ends as the same call on a newly    *)
(* constructed instance ends, with the same result.                        *)
(***************************************************************************)
C10_RunsIndependent ==
    /\ [][(~Running /\ Running')
            => /\ responses' = <<>>
               /\ round_number' = 0
               /\ consensus_reached' = FALSE
               /\ pc' = "agent" /\ agent_index' = 0
               /\ call' = NoCall
               /\ self' = [_max_rounds |-> <<max_rounds'>>,
                           _check_consensus |-> <<check_consensus'>>]]_vars
    /\ [](pc \notin {"idle", "construct_raised"}
            => self = [_max_rounds |-> <<max_rounds>>,
                       _check_consensus |-> <<check_consensus>>])
    /\ []((pc \in {"END", "raised"} /\ FixedProviders)
            => Outcome = FreshRun(max_rounds, check_consensus))

C10_Witness ==
    /\ reused
    /\ Returned
    /\ FixedProviders
    /\ NumAgents >= 2
    /\ check_consensus
    /\ max_rounds >= 2
    /\ consensus_reached
    /\ Outcome = FreshRun(max_rounds, check_consensus)

(***************************************************************************)
(* C11.  As claimed: whenever a step of a run reads the configuration (the *)
(* round controller reading check_consensus, the continuation decision     *)
(* reading max_rounds), the values it reads are the arguments of the call  *)
(* of run() the step belongs to, also when another call of run() on the    *)
(* same instance started while this one was suspended at a provider call.  *)
(***************************************************************************)
C11_ConfigBoundToInvocation ==
    [][(/\ other' = other
        /\ \/ pc = "round_controller" /\ pc' # pc
           \/ pc = "check_for_consensus" /\ round_number' = round_number + 1)
        => self = [_max_rounds |-> <<max_rounds>>,
                   _check_consensus |-> <<check_consensus>>]]_vars

(***************************************************************************)
(* C12.  As claimed: an empty participant list is valid; nothing raises,   *)
(* no turn is executed, and the run returns a DebateResult with zero       *)
(* responses and round_number 0.                                           *)
(***************************************************************************)
C12_EmptyListIsValid ==
    (agents = <<>>)
        => /\ pc \notin {"construct_raised", "raised"}
           /\ responses = <<>>
           /\ Returned => round_number = 0

(***************************************************************************)
(* C13.  When the awaiting task is cancelled while a provider call is in   *)
(* flight, the step that follows ends the run as cancelled: no response is *)
(* appended (no "[Error: ...]" entry), round_number and consensus_reached  *)
(* stay as they were, nothing is returned, and no turn or round-end step   *)
(* of that run follows.                                                    *)
(***************************************************************************)
C13_CancellationPropagates ==
    /\ [][(call.status = "cancelled")
            => /\ pc' = "cancelled"
               /\ call' = NoCall
               /\ UNCHANGED <<responses, round_number, consensus_reached, votes>>]_vars
    /\ [][(pc = "cancelled")
            => \/ UNCHANGED <<pc, responses, round_number, consensus_reached, call>>
               \/ (pc' = "agent" /\ responses' = <<>> /\ round_number' = 0)]_vars
    /\ [](pc = "cancelled" => ~Returned)

C13_Witness ==
    /\ pc = "cancelled"
    /\ NumAgents = 2
    /\ Len(responses) = 3
    /\ responses[2].content = ErrorMarker(MsgBoom)

(***************************************************************************)
(* C14.  As claimed: the decision of every vote follows from its text as   *)
(* the text stands: agree if it contains "agree" and not "disagree",       *)
(* otherwise disagree if it contains "disagree", otherwise needs_revision. *)
(***************************************************************************)
Mentions(text, word) ==
    \E k \in 1..Len(text) :
        /\ k + Len(word) - 1 <= Len(text)
        /\ \A j \in 1..Len(word) : text[k + j - 1] = word[j]

C14_DecisionRuleAsWritten ==
    \A k \in 1..Len(votes) :
        LET text == votes[k].reasoning
        IN  votes[k].decision =
               IF Mentions(text, TxtAgree) /\ ~Mentions(text, TxtDisagree) THEN "agree"
               ELSE IF Mentions(text, TxtDisagree) THEN "disagree"
               ELSE "needs_revision"

(***************************************************************************)
(* C14, amended.  The decision of every vote follows from its text in      *)
(* lower case (the words are matched whatever their case): agree if it     *)
(* contains "agree" and not "disagree", otherwise disagree if it contains  *)
(* "disagree", otherwise needs_revision.  Hence a text with "disagree"     *)
(* gives disagree, a text with neither word gives needs_revision, and the  *)
(* decision is always one of the three.                                    *)
(***************************************************************************)
C14_DecisionRuleIgnoringCase ==
    \A k \in 1..Len(votes) :
        LET text == Lower(votes[k].reasoning)
            d == votes[k].decision
        IN  /\ d = IF Mentions(text, TxtAgree) /\ ~Mentions(text, TxtDisagree) THEN "agree"
                   ELSE IF Mentions(text, TxtDisagree) THEN "disagree"
                   ELSE "needs_revision"
            /\ Mentions(text, TxtDisagree) => d = "disagree"
            /\ (~Mentions(text, TxtAgree) /\ ~Mentions(text, TxtDisagree))
                  => d = "needs_revision"
            /\ d \in {"agree", "disagree", "needs_revision"}

C14_Witness ==
    /\ votes # <<>>
    /\ votes[1].reasoning = <<"d", "i", "s", "A", "g", "r", "e", "e", " ">>
    /\ votes[1].decision = "disagree"

(***************************************************************************)
(* C15.  While the process call of a turn is in flight (participant i,     *)
(* 0-based, in round r, 1-based), the transcript holds (r-1)*N + i         *)
(* responses and the prompt of the call is the topic followed by one line  *)
(* for each of them, in transcript order; the prompt is the                *)
(* initial-contribution prompt exactly at the first turn of the first      *)
(* round.                                                                  *)
(***************************************************************************)
TranscriptLine(k) ==
    responses[k].agent_id \o <<" (", responses[k].role, "): ">> \o responses[k].content

RECURSIVE TranscriptLines(_)
TranscriptLines(n) ==
    IF n = 1 THEN TranscriptLine(1)
    ELSE TranscriptLines(n - 1) \o <<"\n">> \o TranscriptLine(n)

InitialContributionPrompt == <<"Topic: ">> \o topic \o <<"\n\nProvide your initial response:">>

C15_PromptFromWholeTranscript ==
    (call.kind = "process")
        => LET r == round_number + 1
               i == agent_index
               n == (r - 1) * NumAgents + i
           IN  /\ Len(responses) = n
               /\ n = 0 => call.prompt = InitialContributionPrompt
               /\ n > 0 =>
                     call.prompt =
                        <<"Topic: ">> \o topic \o <<"\n\nPrevious responses:\n">>
                            \o TranscriptLines(n) \o <<"\n\nYour response:">>
               /\ (call.prompt = InitialContributionPrompt) <=> (r = 1 /\ i = 0)

C15_Witness ==
    /\ call.kind = "process"
    /\ call.status = "pending"
    /\ NumAgents = 2
    /\ round_number = 1
    /\ agent_index = 1
    /\ topic # <<>>
    /\ responses[1].content = ErrorMarker(MsgBoom)
    /\ responses[3].content = RespIDisagree

(***************************************************************************)
(* C16.  The dictionary a call of debate_on_topic returns has exactly the  *)
(* fields topic, consensus_reached, round_number and total_responses, with *)
(* the topic, the consensus flag and the round count of the run that call  *)
(* started, as that run returned them, and total_responses equal to the    *)
(* length of that run's transcript.                                        *)
(***************************************************************************)
C16_ToolSurfacesRunResult ==
    (tool.result # <<>>)
        => /\ Returned
           /\ DOMAIN tool.result[1] =
                 {"topic", "consensus_reached", "round_number", "total_responses"}
           /\ tool.result[1].topic = topic
           /\ tool.result[1].consensus_reached = consensus_reached
           /\ tool.result[1].round_number = round_number
           /\ tool.result[1].total_responses = Len(responses)

C16_Witness ==
    /\ tool.result # <<>>
    /\ tool.result[1].topic = <<"A", "I">>
    /\ tool.result[1].consensus_reached
    /\ tool.result[1].round_number = 2
    /\ tool.result[1].total_responses = 4

(***************************************************************************)
(* C17.  The transcript holds whole rounds at every round boundary: when a *)
(* round-end step has just finished (the next round is about to start, or  *)
(* the run has returned) len(responses) = N * round_number, with failed    *)
(* turns and with early consensus; inside a round it holds the earlier     *)
(* rounds and the turns taken so far.                                      *)
(***************************************************************************)
C17_WholeRounds ==
    /\ Returned => Len(responses) = NumAgents * round_number
    /\ (pc = "agent" /\ agent_index = 0 /\ call = NoCall)
          => Len(responses) = NumAgents * round_number
    /\ pc = "agent" => Len(responses) = NumAgents * round_number + agent_index
    /\ pc \in {"round_controller", "check_for_consensus"}
          => Len(responses) = NumAgents * (round_number + 1)

C17_Witness ==
    /\ Returned
    /\ NumAgents = 2
    /\ consensus_reached
    /\ failures > 0
    /\ round_number < max_rounds
    /\ Len(responses) = NumAgents * round_number

(***************************************************************************)
(* C18.  consensus_reached is false when a run starts; only a round-end    *)
(* step changes it during a run; whenever it is true the run has returned  *)
(* and the round-end step that set it polled every participant and got     *)
(* agree from each; and once it is true no turn and no round-end step      *)
(* follows in that run.                                                    *)
(***************************************************************************)
C18_ConsensusSetOnceAtRoundEnd ==
    /\ [][(~Running /\ Running') => ~consensus_reached']_vars
    /\ [][(Running /\ consensus_reached' # consensus_reached)
            => pc \in {"round_controller", "check_for_consensus"}]_vars
    /\ [](consensus_reached
            => /\ Returned
               /\ PolledAll
               /\ \A k \in 1..Len(votes) : votes[k].decision = "agree")
    /\ [][consensus_reached
            => \/ UNCHANGED <<responses, round_number, consensus_reached, votes>>
               \/ (pc' = "agent" /\ responses' = <<>> /\ round_number' = 0)]_vars

C18_Witness ==
    /\ Returned
    /\ consensus_reached
    /\ NumAgents = 2
    /\ max_rounds = 3
    /\ round_number = 2
    /\ reused

(***************************************************************************)
(* C19.  As claimed: with consensus checking on, the participants are      *)
(* polled at the round-end of every completed round, the first included,   *)
(* so a run that returns has polled them all, and participants that always *)
(* vote agree end a run with max_rounds = 1 with consensus_reached = true. *)
(***************************************************************************)
C19_PollsAtEveryRoundEnd ==
    /\ (Returned /\ check_consensus /\ responses # <<>>) => PolledAll
    /\ (Returned /\ check_consensus /\ max_rounds = 1
            /\ \A i \in 1..NumAgents : AlwaysAgrees(i))
          => consensus_reached

C21_NoVoteWithoutConsensusCheck ==
    (pc \notin {"idle", "construct_raised"} /\ ~check_consensus)
        => /\ \A i \in 1..NumAgents : invoked.vote[i] = 0
           /\ call.kind # "vote"
           /\ pc # "check_for_consensus"
           /\ votes = <<>>
           /\ ~consensus_reached

C21_Witness ==
    /\ Returned
    /\ ~check_consensus
    /\ reused
    /\ round_number >= 2
    /\ NumAgents = 2
    /\ \A i \in 1..NumAgents : AlwaysAgrees(i)

(***************************************************************************)
(* C22.  As claimed: whenever the consensus sub-protocol runs, every       *)
(* participant is polled exactly once: polls are issued in the order of    *)
(* the agent list, each with the contents of the whole transcript, and     *)
(* outside a poll every participant has been polled as often as every      *)
(* other.                                                                  *)
(***************************************************************************)
C22_EveryParticipantPolledOnce ==
    /\ pc = "check_for_consensus"
          => /\ call.kind = "vote"
             /\ call.agent = Len(votes)
             /\ call.prompt =
                   VotePrompt(topic, [k \in 1..Len(responses) |-> responses[k].content])
             /\ \A k \in 1..Len(votes) : votes[k].agent_id = agents[k].agent_id
    /\ (pc \notin {"idle", "construct_raised", "check_for_consensus"})
          => \A i \in 1..NumAgents : invoked.vote[i] = invoked.vote[1]

(***************************************************************************)
(* What holds instead of C22: a poll that is not ended by a failing vote   *)
(* asks every participant once, in order, whatever the earlier votes were. *)
(***************************************************************************)
PollsInOrder ==
    /\ pc = "check_for_consensus"
          => /\ call.kind = "vote"
             /\ call.agent = Len(votes)
             /\ \A k \in 1..Len(votes) : votes[k].agent_id = agents[k].agent_id
    /\ (pc \notin {"idle", "construct_raised", "check_for_consensus", "raised"})
          => \A i \in 1..NumAgents : invoked.vote[i] = invoked.vote[1]

(***************************************************************************)
(* C23.  At most one call of a participant (process or vote) is awaiting   *)
(* its provider in every state; a call is issued only when none is         *)
(* outstanding; and while one is outstanding the run is suspended at it.   *)
(***************************************************************************)
C23_OneCallAtATime ==
    /\ [](Cardinality(in_flight) <= 1)
    /\ [][(in_flight' \ in_flight # {}) => in_flight = {}]_vars
    /\ [](in_flight # {}
            => (call.status = "pending" /\ in_flight = {<<call.kind, call.agent>>}))

C23_Witness ==
    /\ in_flight = {<<"vote", 1>>}
    /\ votes # <<>>
    /\ votes[1].decision = "disagree"

(***************************************************************************)
(* C24.  A vote call exists only inside the round-end step: then all N     *)
(* responses of the round are in the transcript, no turn is in progress,   *)
(* and no step taken while the poll is in progress changes the transcript. *)
(***************************************************************************)
C24_PollsOnlyAtRoundEnd ==
    /\ []((call.kind = "vote" \/ pc = "check_for_consensus")
            => /\ pc = "check_for_consensus"
               /\ Len(responses) = NumAgents * (round_number + 1))
    /\ [](pc = "agent" => \A c \in in_flight : c[1] = "process")
    /\ [][(pc = "check_for_consensus") => responses' = responses]_vars

C24_Witness ==
    /\ pc = "check_for_consensus"
    /\ call.kind = "vote"
    /\ call.agent = 1
    /\ round_number = 2
    /\ Len(responses) = 6

(***************************************************************************)
(* C25.  round_number is 0 when a run starts; during a run a step either   *)
(* leaves it unchanged or is a round-end step that adds exactly one, with  *)
(* the transcript then holding that many whole rounds; turns, successful   *)
(* or failed, and the polling of votes leave it unchanged; it never        *)
(* decreases during a run.                                                 *)
(***************************************************************************)
C25_RoundNumberCountsRounds ==
    /\ [][(~Running /\ Running') => round_number' = 0]_vars
    /\ [][Running
            => \/ round_number' = round_number
               \/ /\ round_number' = round_number + 1
                  /\ pc \in {"round_controller", "check_for_consensus"}
                  /\ Len(responses) = NumAgents * round_number']_vars
    /\ [][(pc = "agent" \/ (pc = "check_for_consensus" /\ pc' = pc))
            => round_number' = round_number]_vars

C25_Witness ==
    /\ Returned
    /\ round_number = 3
    /\ check_consensus
    /\ failures > 0
    /\ votes # <<>>

(***************************************************************************)
(* C26.  Every step of a run leaves the transcript unchanged or appends    *)
(* exactly one response at its end, the earlier entries staying as they    *)
(* are; the step that ends a turn, successful or failed, appends exactly   *)
(* one; the round-end step, with its poll, appends none.                   *)
(***************************************************************************)
C26_AppendOnly ==
    /\ [][Running
            => \/ responses' = responses
               \/ /\ Len(responses') = Len(responses) + 1
                  /\ SubSeq(responses', 1, Len(responses)) = responses]_vars
    /\ [][(pc = "agent" /\ call.status \in {"returned", "raised"})
            => /\ Len(responses') = Len(responses) + 1
               /\ SubSeq(responses', 1, Len(responses)) = responses]_vars
    /\ [][(pc \in {"round_controller", "check_for_consensus"})
            => responses' = responses]_vars

C26_Witness ==
    /\ Len(responses) = 5
    /\ NumAgents = 2
    /\ responses[2].content = ErrorMarker(MsgBoom)
    /\ responses[4].content = RespAGREE
    /\ responses[5].content = RespOk

(***************************************************************************)
(* C27.  Each turn invokes the participant's process once, whether it      *)
(* returns or raises: in every state the process invocations of the run    *)
(* number len(responses), plus one while a turn's call is under way; no    *)
(* participant is invoked more than once per round; and when the run has   *)
(* returned each participant was invoked exactly round_number times.       *)
(***************************************************************************)
RECURSIVE SumSeq(_)
SumSeq(q) == IF q = <<>> THEN 0 ELSE q[1] + SumSeq(Tail(q))

C27_NoRetry ==
    /\ SumSeq(invoked.process) =
          Len(responses) + (IF call.kind = "process" THEN 1 ELSE 0)
    /\ (pc \notin {"idle", "construct_raised"})
          => \A i \in 1..NumAgents : invoked.process[i] <= round_number + 1
    /\ Returned => \A i \in 1..NumAgents : invoked.process[i] = round_number

C27_Witness ==
    /\ Returned
    /\ NumAgents = 2
    /\ round_number = 2
    /\ IsFailing(1)
    /\ invoked.process = <<2, 2>>
    /\ failures = 2

(***************************************************************************)
(* C28.  In every state of a run with N >= 1 participants round_number is  *)
(* at most max(1, max_rounds); a round after the first is started only     *)
(* while round_number < max_rounds; and a run with max_rounds <= 0,        *)
(* negative values included, returns after exactly one round.              *)
(***************************************************************************)
C28_RoundBound ==
    (NumAgents >= 1 /\ pc \notin {"idle", "construct_raised"})
        => /\ round_number <= Max(1, max_rounds)
           /\ (pc = "agent" /\ round_number >= 1) => round_number < max_rounds
           /\ (Returned /\ max_rounds <= 0)
                 => (round_number = 1 /\ Len(responses) = NumAgents)

C28_Witness ==
    /\ Returned
    /\ max_rounds < 0
    /\ check_consensus
    /\ NumAgents = 2
    /\ round_number = 1

(***************************************************************************)
(* C29.  As claimed: an invocation of the debate_on_topic registered by    *)
(* the k-th call register_debate_tool(agents) runs with the agents given   *)
(* to that call, also when register_debate_tool was called again later.    *)
(***************************************************************************)
C29_ToolBoundToItsRegistration ==
    tool.active => agents = server._tools[tool.fn].agents

(***************************************************************************)
(* What holds instead of C29: every registered debate_on_topic runs with   *)
(* the agents of the latest registration.                                  *)
(***************************************************************************)
ToolRunsLatestRegistration ==
    [][(~tool.active /\ tool'.active) => agents' = server._agents]_vars

(***************************************************************************)
(* C30.  Of two overlapping invocations of debate_on_topic each runs on a  *)
(* graph of its own: in the running and in the suspended invocation the    *)
(* stored configuration is that invocation's own arguments, whatever the   *)
(* other one was given; an invocation ends as a run alone on a new graph   *)
(* with its arguments ends (for participants with fixed answers), and the  *)
(* dictionary it returns reports its own round_number and number of        *)
(* responses.                                                              *)
(***************************************************************************)
C30_OverlappingInvocationsIndependent ==
    /\ (pc \notin {"idle", "construct_raised"})
          => self = [_max_rounds |-> <<max_rounds>>,
                     _check_consensus |-> <<check_consensus>>]
    /\ (other.pc \notin {"idle", "construct_raised"})
          => other.self = [_max_rounds |-> <<other.max_rounds>>,
                           _check_consensus |-> <<other.check_consensus>>]
    /\ (pc \in {"END", "raised"} /\ FixedProviders)
          => Outcome = FreshRun(max_rounds, check_consensus)
    /\ (tool.result # <<>>)
          => /\ tool.result[1].round_number = round_number
             /\ tool.result[1].total_responses = Len(responses)
             /\ tool.result[1].consensus_reached = consensus_reached
    /\ (other.tool.result # <<>>)
          => /\ other.tool.result[1].round_number = other.round_number
             /\ other.tool.result[1].total_responses = Len(other.responses)

C30_Witness ==
    /\ tool.result # <<>>
    /\ other.tool.result # <<>>
    /\ max_rounds = 1
    /\ other.max_rounds = 2
    /\ check_consensus /\ ~other.check_consensus
    /\ tool.result[1].round_number = 1
    /\ other.tool.result[1].round_number = 2
    /\ other.tool.result[1].total_responses = 2
    /\ other.invoked.process = <<2>>
    /\ invoked.process = <<1>>

=============================================================================
